---- MODULE Spec2Model ----
(***************************************************************************)
(* Missing-data handling as exercised by the notebook                      *)
(* Part_05_Data_Wrangling_With_Pandas/Chapter_Introduction_to_Missing_Data *)
(* A DataFrame is an ordered row index, an ordered column index and a cell *)
(* for every (row label, column label).  A Series is a one-column frame.   *)
(* The notebook runs on Python 3.13 (language_info), hence pandas 2.x.     *)
(***************************************************************************)
EXTENDS Integers, Sequences, FiniteSets, TLC

VARIABLES df, arg, out, op

vars == <<df, arg, out, op>>

(* ---------------------------------------------------------------- bounds *)
MaxRows == 3
MaxCols == 3
MaxCells == 4

(* ----------------------------------------------------------------- cells *)
\* a cell is a number num/den (a float64 or an int), a string, or one of the
\* missing markers np.nan and None
NaN == [kind |-> "NaN", num |-> 0, den |-> 1, str |-> ""]
None == [kind |-> "None", num |-> 0, den |-> 1, str |-> ""]
Num(n) == [kind |-> "num", num |-> n, den |-> 1, str |-> ""]
Str(s) == [kind |-> "str", num |-> 0, den |-> 1, str |-> s]

\* pd.isna on one value: NaN and None are both missing
isna(c) == c.kind \in {"NaN", "None"}

notna(c) == ~isna(c)

(* ---------------------------------------------------------------- frames *)
Range(s) == {s[i] : i \in 1..Len(s)}

Cells(T) == Range(T.index) \X Range(T.columns)

\* position of label x in the sequence s of distinct labels
Pos(s, x) == CHOOSE i \in 1..Len(s) : s[i] = x

EmptyFrame == [index |-> <<>>, columns |-> <<>>, val |-> [p \in {} |-> NaN]]

\* a column holding only numbers and missing markers is stored as float64:
\* None becomes NaN there; any other column is an object column
IsNumericColumn(rows, c) == \A r \in 1..Len(rows) : rows[r][c].kind \in {"num", "NaN", "None"}

\* pd.DataFrame(rows): default RangeIndex labels 0..n-1 on both axes
DataFrame(rows) ==
    LET n == Len(rows)
        m == IF n = 0 THEN 0 ELSE Len(rows[1])
    IN [index |-> [i \in 1..n |-> i - 1],
        columns |-> [j \in 1..m |-> j - 1],
        val |-> [p \in (0..(n - 1)) \X (0..(m - 1)) |->
                   LET x == rows[p[1] + 1][p[2] + 1]
                   IN IF x.kind = "None" /\ IsNumericColumn(rows, p[2] + 1) THEN NaN ELSE x]]

\* pd.Series(values): modelled as a frame with the single column 0
Series(values) == DataFrame([i \in 1..Len(values) |-> <<values[i]>>])

\* df.isna(): the boolean mask of the same shape
isnaFrame(T) == [p \in Cells(T) |-> isna(T.val[p])]

\* df.shape
shape(T) == <<Len(T.index), Len(T.columns)>>

Reverse(s) == [i \in 1..Len(s) |-> s[Len(s) + 1 - i]]

\* the survivors come out in reverse order
Take_reversed(T, axis, mask) ==
    LET idx == IF axis = "index" THEN Reverse(SelectSeq(T.index, LAMBDA r : mask[r])) ELSE T.index
        cols == IF axis = "columns" THEN Reverse(SelectSeq(T.columns, LAMBDA c : mask[c])) ELSE T.columns
    IN [index |-> idx, columns |-> cols,
        val |-> [p \in Range(idx) \X Range(cols) |-> T.val[p]]]

\* self.loc(axis=axis)[mask]: the labels with a true mask, in their order
Take(T, axis, mask) ==
    LET idx == IF axis = "index" THEN SelectSeq(T.index, LAMBDA r : mask[r]) ELSE T.index
        cols == IF axis = "columns" THEN SelectSeq(T.columns, LAMBDA c : mask[c]) ELSE T.columns
    IN [index |-> idx, columns |-> cols,
        val |-> [p \in Range(idx) \X Range(cols) |-> T.val[p]]]

(* ---------------------------------------------------------------- dropna *)
Ok(T) == [err |-> "", df |-> T]

Raise(e) == [err |-> e, df |-> EmptyFrame]

\* the labels of the dropped axis, and of the axis that is scanned
AxisLabels(T, axis) == IF axis = "index" THEN T.index ELSE T.columns

AggLabels(T, axis) == IF axis = "index" THEN T.columns ELSE T.index

CellAt(T, axis, a, g) == IF axis = "index" THEN T.val[<<a, g>>] ELSE T.val[<<g, a>>]

\* agg_obj.count(axis=agg_axis): non-missing cells of label a among the scanned labels
Count(T, axis, a, scanned) == Cardinality({g \in scanned : notna(CellAt(T, axis, a, g))})

\* how="any" keeps a label as soon as one scanned cell is present
DropnaMask_anyAsAll(T, axis, how, hasThresh, thresh, scanned) ==
    [a \in Range(AxisLabels(T, axis)) |->
        IF hasThresh THEN Count(T, axis, a, scanned) >= thresh
        ELSE \E g \in scanned : notna(CellAt(T, axis, a, g))]

\* thresh compared with > instead of >=
DropnaMask_strictThresh(T, axis, how, hasThresh, thresh, scanned) ==
    [a \in Range(AxisLabels(T, axis)) |->
        IF hasThresh THEN Count(T, axis, a, scanned) > thresh
        ELSE IF how = "any" THEN \A g \in scanned : notna(CellAt(T, axis, a, g))
        ELSE \E g \in scanned : notna(CellAt(T, axis, a, g))]

\* the two values of how exchanged
DropnaMask_swapHow(T, axis, how, hasThresh, thresh, scanned) ==
    [a \in Range(AxisLabels(T, axis)) |->
        IF hasThresh THEN Count(T, axis, a, scanned) >= thresh
        ELSE IF how = "all" THEN \A g \in scanned : notna(CellAt(T, axis, a, g))
        ELSE \E g \in scanned : notna(CellAt(T, axis, a, g))]

\* how="all" keeps every label
DropnaMask_allKeeps(T, axis, how, hasThresh, thresh, scanned) ==
    [a \in Range(AxisLabels(T, axis)) |->
        IF hasThresh THEN Count(T, axis, a, scanned) >= thresh
        ELSE IF how = "any" THEN \A g \in scanned : notna(CellAt(T, axis, a, g))
        ELSE TRUE]

\* the mask of the labels to keep (count >= thresh, notna(...).all, notna(...).any)
DropnaMask(T, axis, how, hasThresh, thresh, scanned) ==
    [a \in Range(AxisLabels(T, axis)) |->
        IF hasThresh THEN Count(T, axis, a, scanned) >= thresh
        ELSE IF how = "any" THEN \A g \in scanned : notna(CellAt(T, axis, a, g))
        ELSE \E g \in scanned : notna(CellAt(T, axis, a, g))]

\* the subset is checked but every label is scanned
dropna_subsetIgnored(T, axis, how, hasThresh, thresh, hasSubset, subset) ==
    IF how # "no_default" /\ hasThresh THEN Raise("TypeError")
    ELSE IF hasSubset /\ ~(subset \subseteq Range(AggLabels(T, axis))) THEN Raise("KeyError")
    ELSE LET h == IF how = "no_default" THEN "any" ELSE how
             mask == DropnaMask(T, axis, h, hasThresh, thresh, Range(AggLabels(T, axis)))
         IN Ok(Take(T, axis, mask))

\* subset labels the frame does not have are left out of the scan
dropna_lenientSubset(T, axis, how, hasThresh, thresh, hasSubset, subset) ==
    IF how # "no_default" /\ hasThresh THEN Raise("TypeError")
    ELSE LET h == IF how = "no_default" THEN "any" ELSE how
             scanned == IF hasSubset THEN subset \cap Range(AggLabels(T, axis))
                        ELSE Range(AggLabels(T, axis))
             mask == DropnaMask(T, axis, h, hasThresh, thresh, scanned)
         IN Ok(Take(T, axis, mask))

\* thresh given together with how: thresh decides and how is ignored
dropna_threshWins(T, axis, how, hasThresh, thresh, hasSubset, subset) ==
    IF hasSubset /\ ~(subset \subseteq Range(AggLabels(T, axis))) THEN Raise("KeyError")
    ELSE LET h == IF how = "no_default" THEN "any" ELSE how
             scanned == IF hasSubset THEN subset ELSE Range(AggLabels(T, axis))
             mask == DropnaMask(T, axis, h, hasThresh, thresh, scanned)
         IN Ok(Take(T, axis, mask))

\* DataFrame.dropna(axis, how, thresh, subset); how = "no_default" and
\* hasThresh = FALSE / hasSubset = FALSE stand for arguments that are not passed
dropna(T, axis, how, hasThresh, thresh, hasSubset, subset) ==
    IF how # "no_default" /\ hasThresh THEN Raise("TypeError")
    ELSE IF hasSubset /\ ~(subset \subseteq Range(AggLabels(T, axis))) THEN Raise("KeyError")
    ELSE LET h == IF how = "no_default" THEN "any" ELSE how
             scanned == IF hasSubset THEN subset ELSE Range(AggLabels(T, axis))
             mask == DropnaMask(T, axis, h, hasThresh, thresh, scanned)
         IN Ok(Take(T, axis, mask))

(* ------------------------------------------------------------------ fill *)
\* only np.nan is filled, None is left
fillna_NaNOnly(T, v) ==
    [T EXCEPT !.val = [p \in Cells(T) |-> IF T.val[p].kind = "NaN" THEN v ELSE T.val[p]]]

\* fillna(value): every missing cell becomes the value
fillna(T, v) ==
    [T EXCEPT !.val = [p \in Cells(T) |-> IF isna(T.val[p]) THEN v ELSE T.val[p]]]

\* the cells of the row or column through p along which a fill runs
\* (axis="index": down the column of p; axis="columns": along the row of p)
Line(T, axis, p) ==
    IF axis = "index" THEN [i \in 1..Len(T.index) |-> T.val[<<T.index[i], p[2]>>]]
    ELSE [j \in 1..Len(T.columns) |-> T.val[<<p[1], T.columns[j]>>]]

PosOnLine(T, axis, p) == IF axis = "index" THEN Pos(T.index, p[1]) ELSE Pos(T.columns, p[2])

RECURSIVE pad(_, _)
RECURSIVE backfill(_, _)

\* a missing cell takes the cell before it as it was, not as it was filled
pad_rawPrevious(x, i) == IF notna(x[i]) \/ i = 1 THEN x[i] ELSE x[i - 1]

\* forward fill of the line x, at position i: the last valid value is carried on
pad(x, i) == IF notna(x[i]) \/ i = 1 THEN x[i] ELSE pad(x, i - 1)

\* backward fill of the line x, at position i
backfill(x, i) == IF notna(x[i]) \/ i = Len(x) THEN x[i] ELSE backfill(x, i + 1)

ffill(T, axis) ==
    [T EXCEPT !.val = [p \in Cells(T) |-> pad(Line(T, axis, p), PosOnLine(T, axis, p))]]

\* the fill runs forward again
bfill_forward(T, axis) ==
    [T EXCEPT !.val = [p \in Cells(T) |-> pad(Line(T, axis, p), PosOnLine(T, axis, p))]]

bfill(T, axis) ==
    [T EXCEPT !.val = [p \in Cells(T) |-> backfill(Line(T, axis, p), PosOnLine(T, axis, p))]]

(* --------------------------------------------------------------- nullity *)
RECURSIVE GCD(_, _)
GCD(a, b) == IF b = 0 THEN a ELSE GCD(b, a % b)

\* the float n/d for n >= 0, d > 0, in lowest terms
Frac(n, d) == [kind |-> "num", num |-> n \div GCD(n, d), den |-> d \div GCD(n, d), str |-> ""]

Inf == [kind |-> "inf", num |-> 0, den |-> 1, str |-> ""]

\* float64 division of two counts: 0/0 is nan and n/0 is inf, nothing is raised
truediv(n, d) == IF d = 0 THEN (IF n = 0 THEN NaN ELSE Inf) ELSE Frac(n, d)

\* float64 product with a positive integer
times(x, k) == IF x.kind = "num" THEN Frac(x.num * k, x.den) ELSE x

\* a Series indexed by the labels in idx, with the value f[c] at label c
SeriesOf(idx, f) == [index |-> idx, columns |-> <<0>>,
                     val |-> [p \in Range(idx) \X {0} |-> f[p[1]]]]

\* df.isna().sum(axis="index"): the number of missing cells of each column
columnMissingCounts(T) ==
    SeriesOf(T.columns, [c \in Range(T.columns) |->
        Num(Cardinality({r \in Range(T.index) : isnaFrame(T)[<<r, c>>]}))])

\* df.isna().sum(axis="index") / df.shape[0]
columnMissingRatio(T) ==
    SeriesOf(T.columns, [c \in Range(T.columns) |->
        truediv(columnMissingCounts(T).val[<<c, 0>>].num, shape(T)[1])])

\* (df.isna().sum(axis="index") / df.shape[0]) * 100
columnMissingPercent(T) ==
    SeriesOf(T.columns, [c \in Range(T.columns) |->
        times(columnMissingRatio(T).val[<<c, 0>>], 100)])

(* ------------------------------------------------------------ statistics *)
\* the non-missing cells of column c, in row order
Valid(T, c) == SelectSeq([i \in 1..Len(T.index) |-> T.val[<<T.index[i], c>>]], notna)

RECURSIVE SumNum(_)
SumNum(xs) == IF xs = <<>> THEN 0 ELSE Head(xs).num + SumNum(Tail(xs))

\* the k-th smallest of the integers xs
Kth(xs, k) ==
    CHOOSE v \in {xs[i].num : i \in 1..Len(xs)} :
        /\ Cardinality({i \in 1..Len(xs) : xs[i].num < v}) < k
        /\ Cardinality({i \in 1..Len(xs) : xs[i].num <= v}) >= k

\* the sum is divided by the number of rows, missing or not
mean_countAll(T, c) ==
    IF Valid(T, c) = <<>> THEN NaN ELSE Frac(SumNum(Valid(T, c)), Len(T.index))

\* Series.mean(), skipna=True: over the non-missing cells; nan when there is none
mean(T, c) ==
    IF Valid(T, c) = <<>> THEN NaN ELSE Frac(SumNum(Valid(T, c)), Len(Valid(T, c)))

\* Series.median(), skipna=True: the middle value, or the mean of the two middle values
median(T, c) ==
    LET xs == Valid(T, c)
        n == Len(xs)
    IN IF n = 0 THEN NaN
       ELSE IF n % 2 = 1 THEN Frac(Kth(xs, (n + 1) \div 2), 1)
       ELSE Frac(Kth(xs, n \div 2) + Kth(xs, n \div 2 + 1), 2)

\* df.mean() / df.median(): one value per column
Statistic(T, stat) ==
    SeriesOf(T.columns, [c \in Range(T.columns) |->
        IF stat = "mean" THEN mean(T, c) ELSE median(T, c)])

\* a column with a string in it has no mean and no median
HasString(T, c) == \E r \in Range(T.index) : T.val[<<r, c>>].kind = "str"

\* df.fillna(series): a missing cell takes the value the series has for its column
fillnaBy(T, s) ==
    [T EXCEPT !.val = [p \in Cells(T) |-> IF isna(T.val[p]) THEN s.val[<<p[2], 0>>] ELSE T.val[p]]]

\* the columns without a statistic are skipped and the others are filled
fillnaStatistic_numericOnly(T, stat) ==
    Ok([T EXCEPT !.val = [p \in Cells(T) |->
        IF isna(T.val[p]) /\ ~HasString(T, p[2])
        THEN Statistic(T, stat).val[<<p[2], 0>>] ELSE T.val[p]]])

\* df.fillna(df.mean()) / df.fillna(df.median()): df.mean() is evaluated first and
\* raises TypeError on a column that holds a string, before anything is filled
fillnaStatistic(T, stat) ==
    IF \E c \in Range(T.columns) : HasString(T, c) THEN Raise("TypeError")
    ELSE Ok(fillnaBy(T, Statistic(T, stat)))

(* ------------------------------------------------------------- sentinels *)
\* equality of two values as Python compares them: nan equals nothing
Eq(a, b) == a.kind \in {"num", "str"} /\ a = b

\* only string sentinels are replaced
replace_strOnly(T, to_replace, value) ==
    [T EXCEPT !.val = [p \in Cells(T) |->
        IF to_replace.kind = "str" /\ Eq(T.val[p], to_replace) THEN value ELSE T.val[p]]]

\* DataFrame.replace(to_replace, value): in every column, whatever its dtype
replace(T, to_replace, value) ==
    [T EXCEPT !.val = [p \in Cells(T) |-> IF Eq(T.val[p], to_replace) THEN value ELSE T.val[p]]]

\* df.loc[df[c] == x, c] = value, on a frame that has the column c
locAssign(T, c, x, value) ==
    [T EXCEPT !.val = [p \in Cells(T) |->
        IF p[2] = c /\ Eq(T.val[p], x) THEN value ELSE T.val[p]]]

(* ------------------------------------------------------------ the inputs *)
Values == {NaN, Num(0), Num(1), Str("?")}

Shapes == {s \in (1..MaxRows) \X (1..MaxCols) : s[1] * s[2] <= MaxCells}

\* df = pd.DataFrame([[1, np.nan, 2], [2, 3, 5], [np.nan, 4, 6]])
Example == DataFrame(<< <<Num(1), NaN, Num(2)>>, <<Num(2), Num(3), Num(5)>>, <<NaN, Num(4), Num(6)>> >>)

\* data = pd.Series([1, np.nan, "hello", None])
Mixed == Series(<<Num(1), NaN, Str("hello"), None>>)

\* data = pd.Series([1, np.nan, 2, None, 3], index=list("abcde")), the labels
\* a..e written 0..4
Gaps == Series(<<Num(1), NaN, Num(2), None, Num(3)>>)

\* df = pd.DataFrame({"A": [1, 2, None, 4], "B": [None, 2, 3, 4]}), the labels
\* A, B written 0, 1
AB == DataFrame(<< <<Num(1), None>>, <<Num(2), Num(2)>>, <<None, Num(3)>>, <<Num(4), Num(4)>> >>)

\* df = pd.DataFrame([[1, np.nan, 2], [2, np.nan, 5], [np.nan, 4, 6], [7, np.nan, 9],
\*                    [np.nan, 10, 11], [12, np.nan, 14], [15, np.nan, 17]])
Sparse == DataFrame(<< <<Num(1), NaN, Num(2)>>, <<Num(2), NaN, Num(5)>>, <<NaN, Num(4), Num(6)>>,
                       <<Num(7), NaN, Num(9)>>, <<NaN, Num(10), Num(11)>>,
                       <<Num(12), NaN, Num(14)>>, <<Num(15), NaN, Num(17)>> >>)

Literals == {Example, Mixed, Gaps, AB, Sparse}

Frames ==
    Literals \cup
    UNION { {DataFrame(rows) : rows \in [1..s[1] -> [1..s[2] -> Values]]} : s \in Shapes }

Axes == {"index", "columns"}

Hows == {"no_default", "any", "all"}

NoCall == [name |-> "none", axis |-> "index", how |-> "no_default", hasThresh |-> FALSE,
           thresh |-> 0, hasSubset |-> FALSE, subset |-> {}, value |-> NaN]

(* --------------------------------------------------------------- actions *)
Init ==
    /\ df \in Frames
    /\ arg = df
    /\ out = Ok(df)
    /\ op = NoCall

\* the subset arguments tried: the empty list, one label, two labels, a label that
\* no frame has
Subsets == {{}, {0}, {1}, {0, 1}, {MaxCols}}

\* a cell that evaluates df.dropna(...) and displays the result
DropnaCell ==
    \E axis \in Axes, how \in Hows, hasThresh \in BOOLEAN, thresh \in 0..MaxRows,
       hasSubset \in BOOLEAN, subset \in Subsets :
        /\ op.name = "none"
        /\ (~hasThresh => thresh = 0)
        /\ (~hasSubset => subset = {})
        /\ ((how # "no_default" /\ hasThresh) => ~hasSubset)
        /\ out' = dropna(df, axis, how, hasThresh, thresh, hasSubset, subset)
        /\ op' = [NoCall EXCEPT !.name = "dropna", !.axis = axis, !.how = how,
                                !.hasThresh = hasThresh, !.thresh = thresh,
                                !.hasSubset = hasSubset, !.subset = subset]
        /\ arg' = df
        /\ UNCHANGED df

\* int(df.shape[0] * 0.5): the product is exact and int() truncates it
halfRows(T) == shape(T)[1] \div 2

\* df.dropna(axis="columns", thresh=int(df.shape[0] * 0.5))
DropnaHalfCell ==
    /\ op.name = "none"
    /\ out' = dropna(df, "columns", "no_default", TRUE, halfRows(df), FALSE, {})
    /\ op' = [NoCall EXCEPT !.name = "dropna_half", !.axis = "columns",
                            !.hasThresh = TRUE, !.thresh = halfRows(df)]
    /\ arg' = df
    /\ UNCHANGED df

\* a cell of the form  df = df.dropna(subset=[c], how=h): the name is rebound to the
\* result; an exception leaves the name bound to the old frame
DropnaAssignCell ==
    \E how \in {"any", "all"}, c \in 0..MaxCols :
        /\ op.name = "none"
        /\ out' = dropna(df, "index", how, FALSE, 0, TRUE, {c})
        /\ op' = [NoCall EXCEPT !.name = "dropna_assign", !.how = how,
                                !.hasSubset = TRUE, !.subset = {c}]
        /\ arg' = df
        /\ df' = IF out'.err = "" THEN out'.df ELSE df

\* the cell  df = df.dropna(subset=[c], how=h)  run right after another cell of the
\* same form: the name is rebound a second time; arg keeps the frame the first of
\* the two calls ran on
DropnaAssignThenCell ==
    \E how \in {"any", "all"}, c \in 0..MaxCols :
        /\ op.name = "dropna_assign"
        /\ out' = dropna(df, "index", how, FALSE, 0, TRUE, {c})
        /\ op' = [NoCall EXCEPT !.name = "dropna_assign_then", !.how = how,
                                !.hasSubset = TRUE, !.subset = {c}]
        /\ arg' = arg
        /\ df' = IF out'.err = "" THEN out'.df ELSE df

\* data.fillna(0)
FillValues == {Num(0), Num(2)}

FillnaCell ==
    \E v \in FillValues :
        /\ op.name = "none"
        /\ out' = Ok(fillna(df, v))
        /\ op' = [NoCall EXCEPT !.name = "fillna", !.value = v]
        /\ arg' = df
        /\ UNCHANGED df

\* data.ffill(), df.ffill(axis="columns")
FfillCell ==
    \E axis \in Axes :
        /\ op.name = "none"
        /\ out' = Ok(ffill(df, axis))
        /\ op' = [NoCall EXCEPT !.name = "ffill", !.axis = axis]
        /\ arg' = df
        /\ UNCHANGED df

\* data.bfill()
BfillCell ==
    \E axis \in Axes :
        /\ op.name = "none"
        /\ out' = Ok(bfill(df, axis))
        /\ op' = [NoCall EXCEPT !.name = "bfill", !.axis = axis]
        /\ arg' = df
        /\ UNCHANGED df

\* the forward fill followed by the backward fill: data.ffill().bfill()
FfillBfillCell ==
    /\ op.name = "none"
    /\ out' = Ok(bfill(ffill(df, "index"), "index"))
    /\ op' = [NoCall EXCEPT !.name = "ffill_bfill"]
    /\ arg' = df
    /\ UNCHANGED df

\* df_filled = df.fillna(df.mean()), df_filled = df.fillna(df.median()): df stays
FillnaStatisticCell ==
    \E stat \in {"mean", "median"} :
        /\ op.name = "none"
        /\ out' = fillnaStatistic(df, stat)
        /\ op' = [NoCall EXCEPT !.name = "fillna_statistic", !.how = stat]
        /\ arg' = df
        /\ UNCHANGED df

\* (df.isna().sum(axis="index") / df.shape[0]) * 100
IsnaPercentCell ==
    /\ op.name = "none"
    /\ out' = Ok(columnMissingPercent(df))
    /\ op' = [NoCall EXCEPT !.name = "isna_percent"]
    /\ arg' = df
    /\ UNCHANGED df

\* the values the notebook turns into np.nan: "?", "." and 0
Sentinels == {Str("?"), Str("."), Num(0)}

\* happiness2015 = happiness2015.replace("?", np.nan)
ReplaceCell ==
    \E s \in Sentinels :
        /\ op.name = "none"
        /\ out' = Ok(replace(df, s, NaN))
        /\ op' = [NoCall EXCEPT !.name = "replace", !.value = s]
        /\ arg' = df
        /\ df' = out'.df

\* diabetes.loc[diabetes["BMI"] == 0, "BMI"] = np.nan: the frame is changed in
\* place; diabetes[c] raises KeyError when there is no column c
LocAssignCell ==
    \E c \in 0..MaxCols, s \in Sentinels :
        /\ op.name = "none"
        /\ out' = IF c \in Range(df.columns) THEN Ok(locAssign(df, c, s, NaN)) ELSE Raise("KeyError")
        /\ op' = [NoCall EXCEPT !.name = "loc_assign", !.value = s, !.hasSubset = TRUE,
                                !.subset = {c}]
        /\ arg' = df
        /\ df' = IF out'.err = "" THEN out'.df ELSE df

\* the displayed output belongs to the cell that produced it: the kernel is ready
\* for the next cell, with the names still bound
NextCell ==
    /\ op.name # "none"
    /\ out' = Ok(df)
    /\ op' = NoCall
    /\ arg' = df
    /\ UNCHANGED df

Next ==
    \/ DropnaCell
    \/ DropnaAssignCell
    \/ DropnaAssignThenCell
    \/ DropnaHalfCell
    \/ FillnaCell
    \/ FfillCell
    \/ BfillCell
    \/ FfillBfillCell
    \/ FillnaStatisticCell
    \/ IsnaPercentCell
    \/ ReplaceCell
    \/ LocAssignCell
    \/ NextCell

Spec == Init /\ [][Next]_vars

(* ---------------------------------------------------------------- claims *)
\* the last cell displayed df.dropna(...) and df is the frame it was called on
DroppedBy(axis, hows) ==
    /\ op.name = "dropna"
    /\ op.axis = axis
    /\ op.how \in hows
    /\ ~op.hasThresh

NoMissing(T) == \A p \in Cells(T) : ~isnaFrame(T)[p]

\* columnCount - sum(mask[r])
nonMissingCount(T, r) == Len(T.columns) - Cardinality({c \in Range(T.columns) : isnaFrame(T)[<<r, c>>]})

Labels(T, axis) == Range(AxisLabels(T, axis))

(* C1: dropna over rows with how=any returns at most as many rows as its input,
   and exactly as many iff no cell of the input is missing. *)
C1_RowCount ==
    (DroppedBy("index", {"any", "no_default"}) /\ ~op.hasSubset) =>
        /\ out.err = ""
        /\ Len(out.df.index) <= Len(df.index)
        /\ (Len(out.df.index) = Len(df.index)) <=> NoMissing(df)

C1_Witness ==
    /\ DroppedBy("index", {"any", "no_default"}) /\ ~op.hasSubset
    /\ Len(out.df.index) > 0
    /\ Len(out.df.index) < Len(df.index)
    /\ Len(df.columns) >= 2

(* C2: over rows, thresh=k keeps a row iff it has at least k non-missing cells;
   thresh = column count keeps the rows of how=any and thresh = 1 those of how=all. *)
C2_ThreshGeneralises ==
    (op.name = "dropna" /\ op.axis = "index" /\ op.hasThresh /\ op.how = "no_default"
        /\ ~op.hasSubset) =>
        /\ out.err = ""
        /\ \A r \in Range(df.index) :
              (r \in Range(out.df.index)) <=> (nonMissingCount(df, r) >= op.thresh)
        /\ (op.thresh = Len(df.columns)) => (out = dropna(df, "index", "any", FALSE, 0, FALSE, {}))
        /\ (op.thresh = 1) => (out = dropna(df, "index", "all", FALSE, 0, FALSE, {}))

C2_Witness ==
    /\ op.name = "dropna" /\ op.axis = "index" /\ op.hasThresh /\ op.how = "no_default"
    /\ ~op.hasSubset
    /\ op.thresh = Len(df.columns)
    /\ Len(df.columns) = 2
    /\ Len(out.df.index) = 1
    /\ \E r \in Range(df.index) : nonMissingCount(df, r) = 1

\* the labels that the same call with how="all" keeps
AllSurvivors == Labels(dropna(df, op.axis, "all", FALSE, 0, op.hasSubset, op.subset).df, op.axis)

\* the labels the call scanned for each row (or column)
Scanned == IF op.hasSubset THEN op.subset ELSE Range(AggLabels(df, op.axis))

(* C3 as stated: on either axis and for any subset, whatever survives how=any
   survives how=all. *)
C3_AnySurvivorsSurviveAll ==
    (op.name = "dropna" /\ op.how \in {"any", "no_default"} /\ ~op.hasThresh /\ out.err = "") =>
        Labels(out.df, op.axis) \subseteq AllSurvivors

(* C3 amended: whatever survives how=any survives how=all, provided at least one
   cell is scanned per row (or column). *)
C3_AnySurvivorsSurviveAll_Scanned ==
    (op.name = "dropna" /\ op.how \in {"any", "no_default"} /\ ~op.hasThresh /\ out.err = ""
        /\ Scanned # {}) =>
        Labels(out.df, op.axis) \subseteq AllSurvivors

C3_Witness ==
    /\ op.name = "dropna" /\ op.how = "any" /\ ~op.hasThresh /\ out.err = ""
    /\ op.axis = "columns"
    /\ Scanned # {}
    /\ Labels(out.df, op.axis) # {}
    /\ Labels(out.df, op.axis) # AllSurvivors

InOrderOf(sub, s) ==
    /\ Range(sub) \subseteq Range(s)
    /\ \A i, j \in 1..Len(sub) : (i < j) => (Pos(s, sub[i]) < Pos(s, sub[j]))

\* the keep predicate of the call, from the mask
Keeps(T, axis, a) ==
    LET missing == {g \in Scanned : isna(CellAt(T, axis, a, g))}
    IN IF op.hasThresh THEN Cardinality(Scanned) - Cardinality(missing) >= op.thresh
       ELSE IF op.how = "all" THEN ~(missing = Scanned)
       ELSE missing = {}

\* what every displayed dropna result is, whatever the frame
C4_Survivors ==
    (op.name = "dropna" /\ out.err = "") =>
        /\ Labels(out.df, op.axis) = {a \in Labels(df, op.axis) : Keeps(df, op.axis, a)}
        /\ InOrderOf(AxisLabels(out.df, op.axis), AxisLabels(df, op.axis))
        /\ Len(AxisLabels(out.df, op.axis)) = Cardinality(Labels(out.df, op.axis))
        /\ AggLabels(out.df, op.axis) = AggLabels(df, op.axis)
        /\ \A p \in Cells(out.df) : out.df.val[p] = df.val[p]

\* the example over rows: the single row [2,3,5]
C4_ExampleRows ==
    (df = Example /\ DroppedBy("index", {"any", "no_default"}) /\ ~op.hasSubset) =>
        /\ out.df.index = <<1>>
        /\ out.df.columns = <<0, 1, 2>>
        /\ <<out.df.val[<<1, 0>>], out.df.val[<<1, 1>>], out.df.val[<<1, 2>>]>>
             = <<Num(2), Num(3), Num(5)>>

\* the example over columns, as stated: no column is left
C4_ExampleColumnsEmpty ==
    (df = Example /\ DroppedBy("columns", {"any", "no_default"}) /\ ~op.hasSubset) =>
        out.df.columns = <<>>

\* the example over columns, as the call behaves: the column [2,5,6] is left
C4_ExampleColumnsLast ==
    (df = Example /\ DroppedBy("columns", {"any", "no_default"}) /\ ~op.hasSubset) =>
        /\ out.df.columns = <<2>>
        /\ out.df.index = <<0, 1, 2>>
        /\ <<out.df.val[<<0, 2>>], out.df.val[<<1, 2>>], out.df.val[<<2, 2>>]>>
             = <<Num(2), Num(5), Num(6)>>

(* C4 as stated: dropna returns exactly the rows (or columns) that satisfy the keep
   predicate, in the input's order and with their cells unchanged, and the frame
   it was called on is the same after the call; the 3x3 example gives the row
   [2,3,5] over rows and no column at all over columns. *)
C4_DropnaFrame_EmptyColumns ==
    /\ [](C4_Survivors /\ C4_ExampleRows /\ C4_ExampleColumnsEmpty)
    /\ [][(op'.name = "dropna") => (df' = df)]_vars

(* C4 amended: the same, except that the 3x3 example over columns gives the one
   column [2,5,6], the only column without a missing cell. *)
C4_DropnaFrame ==
    /\ [](C4_Survivors /\ C4_ExampleRows /\ C4_ExampleColumnsLast)
    /\ [][(op'.name = "dropna") => (df' = df)]_vars

C4_Witness ==
    /\ df = Example
    /\ DroppedBy("columns", {"any", "no_default"}) /\ ~op.hasSubset
    /\ out.df.columns = <<2>>

SameShape(A, B) == A.index = B.index /\ A.columns = B.columns

(* C5: fillna with a constant value (not itself a missing marker) returns a table
   of the same shape without any missing cell, where present cells keep their
   value and missing cells hold the constant. *)
C5_FillnaConstant ==
    (op.name = "fillna") =>
        /\ out.err = ""
        /\ SameShape(out.df, arg)
        /\ \A p \in Cells(arg) :
              /\ notna(out.df.val[p])
              /\ notna(arg.val[p]) => (out.df.val[p] = arg.val[p])
              /\ isna(arg.val[p]) => (out.df.val[p] = op.value)

C5_Witness ==
    /\ op.name = "fillna"
    /\ op.value = Num(2)
    /\ \E p, q \in Cells(arg) :
          /\ isna(arg.val[p]) /\ out.df.val[p] = Num(2)
          /\ notna(arg.val[q]) /\ out.df.val[q] = arg.val[q]

\* the positions before i on the line x that hold a non-missing cell
Preceding(x, i) == {j \in 1..(i - 1) : notna(x[j])}

SetMax(S) == CHOOSE m \in S : \A n \in S : n <= m

(* C6: forward fill gives each missing cell the value of the nearest non-missing
   cell before it on its own row (axis=columns) or column (axis=index), leaves
   present cells as they are, and leaves a missing cell with nothing before it
   missing. *)
C6_ForwardFill ==
    (op.name = "ffill") =>
        /\ out.err = ""
        /\ SameShape(out.df, arg)
        /\ \A p \in Cells(arg) :
              LET x == Line(arg, op.axis, p)
                  i == PosOnLine(arg, op.axis, p)
              IN /\ notna(arg.val[p]) => (out.df.val[p] = arg.val[p])
                 /\ (isna(arg.val[p]) /\ Preceding(x, i) # {}) =>
                        (out.df.val[p] = x[SetMax(Preceding(x, i))])
                 /\ (isna(arg.val[p]) /\ Preceding(x, i) = {}) =>
                        (out.df.val[p] = arg.val[p] /\ isna(out.df.val[p]))

\* along the rows of a 2x2 frame: one row is filled from its first cell, the
\* other keeps its leading missing cell although the cell above it is present
C6_Witness ==
    /\ op.name = "ffill" /\ op.axis = "columns"
    /\ shape(arg) = <<2, 2>>
    /\ notna(arg.val[<<0, 0>>]) /\ isna(arg.val[<<0, 1>>])
    /\ isna(arg.val[<<1, 0>>]) /\ notna(arg.val[<<1, 1>>])
    /\ out.df.val[<<0, 1>>] = arg.val[<<0, 0>>]
    /\ isna(out.df.val[<<1, 0>>])

ColumnAllMissing(T, c) == \A r \in Range(T.index) : isna(T.val[<<r, c>>])

(* C7: forward fill followed by backward fill leaves no missing cell in a column,
   unless every cell of the column was missing, and then every cell stays missing. *)
C7_ForwardThenBackward ==
    (op.name = "ffill_bfill") =>
        /\ out.err = ""
        /\ SameShape(out.df, arg)
        /\ \A c \in Range(arg.columns) :
              IF ColumnAllMissing(arg, c)
              THEN \A r \in Range(arg.index) : isna(out.df.val[<<r, c>>])
              ELSE \A r \in Range(arg.index) : notna(out.df.val[<<r, c>>])

\* a single column with a leading and a trailing gap
C7_Witness ==
    /\ op.name = "ffill_bfill"
    /\ shape(arg) = <<3, 1>>
    /\ isna(arg.val[<<0, 0>>]) /\ notna(arg.val[<<1, 0>>]) /\ isna(arg.val[<<2, 0>>])
    /\ \A r \in Range(arg.index) : out.df.val[<<r, 0>>] = arg.val[<<1, 0>>]

BothGiven == op.name = "dropna" /\ op.how # "no_default" /\ op.hasThresh

(* C8 as stated: with both how and thresh supplied, dropna returns what it returns
   with thresh alone. *)
C8_ThreshOverridesHow ==
    BothGiven => (out = dropna(arg, op.axis, "no_default", TRUE, op.thresh, op.hasSubset, op.subset))

(* C8 amended: with both how and thresh supplied, dropna raises TypeError and
   returns no table, whatever the values of how and thresh. *)
C8_BothGivenRaises ==
    BothGiven => (out.err = "TypeError" /\ out.df = EmptyFrame)

C8_Witness ==
    /\ BothGiven
    /\ op.how = "all" /\ op.thresh = 1
    /\ out.err = "TypeError"
    /\ dropna(arg, op.axis, "no_default", TRUE, op.thresh, op.hasSubset, op.subset).err = ""
    /\ Len(dropna(arg, op.axis, "no_default", TRUE, op.thresh, op.hasSubset, op.subset).df.index) = 1

\* a float x with 0 <= x <= 1
InUnitInterval(x) == x.kind = "num" /\ 0 <= x.num /\ x.num <= x.den

\* the column [1, NaN, 3, None]
C9_Column == Series(<<Num(1), NaN, Num(3), None>>)

(* C9: the missing ratio of every column is its missing count divided by the row
   count, lies in [0,1], and is 0 when there is no row; the column
   [1, NaN, 3, None] has the mask [false, true, false, true] and the ratio 0.5. *)
C9_MissingRatio ==
    /\ (op.name = "isna_percent") =>
          /\ out.err = ""
          /\ \A c \in Range(arg.columns) :
                LET ratio == columnMissingRatio(arg).val[<<c, 0>>]
                    count == Cardinality({r \in Range(arg.index) : isna(arg.val[<<r, c>>])})
                IN /\ InUnitInterval(ratio)
                   /\ IF Len(arg.index) = 0 THEN ratio = Num(0)
                      ELSE ratio.num * Len(arg.index) = count * ratio.den
                   /\ out.df.val[<<c, 0>>] = times(ratio, 100)
    /\ [r \in 0..3 |-> isnaFrame(C9_Column)[<<r, 0>>]] = [r \in 0..3 |-> r \in {1, 3}]
    /\ columnMissingRatio(C9_Column).val[<<0, 0>>] = Frac(1, 2)

\* the same with the claim about a frame without rows left out
C9_MissingRatio_WithRows ==
    (op.name = "isna_percent" /\ Len(arg.index) > 0) =>
        \A c \in Range(arg.columns) :
            LET ratio == columnMissingRatio(arg).val[<<c, 0>>]
                count == Cardinality({r \in Range(arg.index) : isna(arg.val[<<r, c>>])})
            IN /\ InUnitInterval(ratio)
               /\ ratio.num * Len(arg.index) = count * ratio.den

\* the semantic type of a column, among the declared ones (a column of numbers is
\* float, a column of strings is string); a column that mixes both has none
SemanticType(T, c) ==
    LET present == {T.val[<<r, c>>].kind : r \in {r \in Range(T.index) : notna(T.val[<<r, c>>])}}
    IN IF present \subseteq {"num"} THEN "float"
       ELSE IF present \subseteq {"str"} THEN "string"
       ELSE "unrecognized"

\* the columns the call classifies: all of them, or the one of the loc assignment
Classified == IF op.name = "replace" THEN Range(arg.columns) ELSE op.subset \cap Range(arg.columns)

\* cell p of the frame the call ran on, as the call classified it
ClassifiedRight(p) ==
    /\ Eq(arg.val[p], op.value) => isna(df.val[p])
    /\ isna(arg.val[p]) => isna(df.val[p])
    /\ (~Eq(arg.val[p], op.value) /\ notna(arg.val[p])) => (df.val[p] = arg.val[p])

Sentinelled == op.name \in {"replace", "loc_assign"} /\ op.subset \subseteq Range(arg.columns)

(* C10 as stated: a value equal to a sentinel is missing whatever the type of its
   column, NaN is missing, every other value is present with its raw value, and
   a column of an unrecognized type makes the call fail with ConfigurationError. *)
C10_ClassifyOrFail ==
    Sentinelled =>
        \A c \in Classified :
            IF SemanticType(arg, c) = "unrecognized" THEN out.err = "ConfigurationError"
            ELSE out.err = "" /\ \A r \in Range(arg.index) : ClassifiedRight(<<r, c>>)

(* C10 amended: a value equal to a sentinel is missing whatever the type of its
   column, NaN and None are missing, every other value is present with its raw
   value, and the call never fails on the type of a column: a column that mixes
   numbers and strings is classified like any other. *)
C10_Classify ==
    Sentinelled =>
        /\ out.err = ""
        /\ SameShape(df, arg)
        /\ \A c \in Classified : \A r \in Range(arg.index) : ClassifiedRight(<<r, c>>)
        /\ \A p \in Cells(arg) : (p[2] \notin Classified) => (df.val[p] = arg.val[p])

\* a number sentinel found in a column that also holds a string
C10_Witness ==
    /\ op.name = "replace" /\ op.value = Num(0)
    /\ \E c \in Range(arg.columns) :
          /\ SemanticType(arg, c) = "unrecognized"
          /\ \E r \in Range(arg.index) : arg.val[<<r, c>>] = Num(0) /\ df.val[<<r, c>>] = NaN
          /\ \E r \in Range(arg.index) : arg.val[<<r, c>>] = Str("?") /\ df.val[<<r, c>>] = Str("?")

\* the non-missing numbers of column c of the frame the call ran on
Present(c) == {r \in Range(arg.index) : notna(arg.val[<<r, c>>])}

RECURSIVE SumOver(_, _)
SumOver(c, rows) ==
    IF rows = {} THEN 0
    ELSE LET r == CHOOSE r \in rows : TRUE IN arg.val[<<r, c>>].num + SumOver(c, rows \ {r})

\* the numbers of column c in ascending order
Ascending(c) ==
    CHOOSE s \in [1..Cardinality(Present(c)) -> {arg.val[<<r, c>>].num : r \in Present(c)}] :
        /\ \A i \in 1..(Cardinality(Present(c)) - 1) : s[i] <= s[i + 1]
        /\ \A v \in {arg.val[<<r, c>>].num : r \in Present(c)} :
              Cardinality({i \in DOMAIN s : s[i] = v})
                = Cardinality({r \in Present(c) : arg.val[<<r, c>>].num = v})

\* x is the mean (the median) of the non-missing numbers of column c
IsStatisticOf(x, c) ==
    LET n == Cardinality(Present(c))
    IN IF n = 0 THEN isna(x)
       ELSE IF op.how = "mean" THEN x.kind = "num" /\ x.num * n = SumOver(c, Present(c)) * x.den
       ELSE IF n % 2 = 1 THEN x.kind = "num" /\ x.num = Ascending(c)[(n + 1) \div 2] * x.den
       ELSE x.kind = "num" /\ 2 * x.num = (Ascending(c)[n \div 2] + Ascending(c)[n \div 2 + 1]) * x.den

(* C11: the mean (median) fill gives every missing cell the mean (median) of the
   non-missing values of its own column and leaves every present cell unchanged. *)
C11_StatisticFill ==
    (op.name = "fillna_statistic" /\ out.err = "") =>
        /\ SameShape(out.df, arg)
        /\ \A p \in Cells(arg) :
              /\ notna(arg.val[p]) => (out.df.val[p] = arg.val[p])
              /\ isna(arg.val[p]) => IsStatisticOf(out.df.val[p], p[2])

\* two columns with different statistics, each with a filled cell
C11_Witness ==
    /\ op.name = "fillna_statistic" /\ out.err = ""
    /\ \E p, q \in Cells(arg) :
          /\ p[2] # q[2]
          /\ isna(arg.val[p]) /\ isna(arg.val[q])
          /\ notna(out.df.val[p]) /\ notna(out.df.val[q])
          /\ out.df.val[p] # out.df.val[q]
          /\ out.df.val[p].den > 1

(* C12: when a column has no defined mean or median (it holds a string), the
   statistic fill fails with a type error, returns no table, not even a partly
   filled one, and leaves the frame it was called on unchanged. *)
C12_StatisticFillFails ==
    (op.name = "fillna_statistic" /\ \E c \in Range(arg.columns) : HasString(arg, c)) =>
        /\ out.err = "TypeError"
        /\ out.df = EmptyFrame
        /\ df = arg

\* a numeric column with a gap next to a column of strings
C12_Witness ==
    /\ op.name = "fillna_statistic"
    /\ out.err = "TypeError"
    /\ \E c, d \in Range(arg.columns) :
          /\ HasString(arg, c)
          /\ ~HasString(arg, d)
          /\ \E r \in Range(arg.index) : isna(arg.val[<<r, d>>])
          /\ \E r \in Range(arg.index) : notna(arg.val[<<r, d>>])

\* the subset names a label the frame does not have
MissingName == op.hasSubset /\ ~(op.subset \subseteq Range(AggLabels(arg, op.axis)))

\* the threshold is outside [0, axisLength]
ThreshOutside == op.hasThresh /\ ~(op.thresh \in 0..Len(AggLabels(arg, op.axis)))

(* C13 as stated: dropna fails, returning no table, whenever the subset names an
   absent label or the threshold is outside [0, axisLength], and returns a table
   without error for every threshold inside and every subset of existing names
   (calls that give how and thresh together are left aside). *)
C13_ShapeMismatch ==
    (op.name = "dropna" /\ ~BothGiven) =>
        /\ (MissingName \/ ThreshOutside) => (out.err # "" /\ out.df = EmptyFrame)
        /\ (~MissingName /\ ~ThreshOutside) => (out.err = "")

(* C13 amended: with how and thresh not both given, dropna raises KeyError and
   returns no table exactly when the subset names an absent label; the threshold
   is never checked: one above axisLength raises nothing and drops every label. *)
C13_KeyErrorOnly ==
    (op.name = "dropna" /\ ~BothGiven) =>
        /\ MissingName => (out.err = "KeyError" /\ out.df = EmptyFrame)
        /\ ~MissingName =>
              /\ out.err = ""
              /\ ThreshOutside =>
                    /\ Labels(out.df, op.axis) = {}
                    /\ AggLabels(out.df, op.axis) = AggLabels(arg, op.axis)

\* a threshold above axisLength on a frame with labels to drop: a table, no error
C13_Witness ==
    /\ op.name = "dropna" /\ ~BothGiven
    /\ ThreshOutside /\ ~MissingName
    /\ Labels(arg, op.axis) # {}
    /\ out.err = ""
    /\ Labels(out.df, op.axis) = {}

\* the number of missing cells of column c of the frame the call ran on
MissingIn(c) == Cardinality({r \in Range(arg.index) : isna(arg.val[<<r, c>>])})

\* more than 50% of the values of column c are missing
MoreThanHalfMissing(c) == 2 * MissingIn(c) > Len(arg.index)

(* C14 as stated: dropna(axis=columns, thresh=int(rowCount * 0.5)) removes exactly
   the columns in which more than 50% of the values are missing and keeps every
   other column. *)
C14_MoreThanHalf ==
    (op.name = "dropna_half") =>
        /\ out.err = ""
        /\ Range(out.df.columns) = {c \in Range(arg.columns) : ~MoreThanHalfMissing(c)}

(* C14, what the call does: it keeps exactly the columns with at least
   rowCount div 2 non-missing values; with an even rowCount these are the columns
   with at most 50% missing. *)
C14_AtLeastHalfRoundedDown ==
    (op.name = "dropna_half") =>
        /\ out.err = ""
        /\ Range(out.df.columns)
             = {c \in Range(arg.columns) : Len(arg.index) - MissingIn(c) >= Len(arg.index) \div 2}
        /\ (Len(arg.index) % 2 = 0) =>
              (Range(out.df.columns) = {c \in Range(arg.columns) : ~MoreThanHalfMissing(c)})

\* an odd number of rows and a kept column with more than 50% missing
C14_Witness ==
    /\ op.name = "dropna_half"
    /\ Len(arg.index) % 2 = 1
    /\ \E c \in Range(out.df.columns) : MoreThanHalfMissing(c)

\* the notebook's frame: column 1 (5 of 7 missing) goes, columns 0 and 2 stay
C14_SparseExample ==
    (op.name = "dropna_half" /\ arg = Sparse) => (out.df.columns = <<0, 2>>)

\* a dropna over rows with how=all and a subset of one existing column
OneColumnAll ==
    /\ op.name \in {"dropna", "dropna_assign"}
    /\ op.axis = "index" /\ op.how = "all" /\ ~op.hasThresh /\ op.hasSubset
    /\ \E c \in Range(arg.columns) : op.subset = {c}

\* the frame T without the rows that have a missing cell in one of the columns cs
WithoutMissingIn(T, cs) ==
    LET rows == {r \in Range(T.index) : \A c \in cs : notna(T.val[<<r, c>>])}
    IN [index |-> SelectSeq(T.index, LAMBDA r : r \in rows),
        columns |-> T.columns,
        val |-> [p \in rows \X Range(T.columns) |-> T.val[p]]]

(* C15: dropna over rows with how=all and a subset of a single column drops
   exactly the rows in which that column is missing, whatever the other columns
   hold, so that column has no missing cell in the result, and the result is the
   one of how=any with the same subset. *)
C15_SingleColumnAll ==
    OneColumnAll =>
        /\ out = Ok(WithoutMissingIn(arg, op.subset))
        /\ \A r \in Range(out.df.index), c \in op.subset : notna(out.df.val[<<r, c>>])
        /\ out = dropna(arg, "index", "any", FALSE, 0, TRUE, op.subset)
        /\ (op.name = "dropna_assign") => (df = out.df)

\* one row goes for its missing subset cell, one stays with a missing cell elsewhere
C15_Witness ==
    /\ OneColumnAll
    /\ out.err = ""
    /\ \E r \in Range(arg.index) \ Range(out.df.index) : \E c \in op.subset : isna(arg.val[<<r, c>>])
    /\ \E r \in Range(out.df.index), c \in Range(arg.columns) \ op.subset : isna(arg.val[<<r, c>>])

\* the second of two assigning dropna calls, both with a column the frame has
SecondOfTwo ==
    /\ op.name = "dropna_assign" /\ op'.name = "dropna_assign_then"
    /\ op.subset \subseteq Range(arg.columns)
    /\ op'.subset \subseteq Range(arg.columns)

\* every column of T has one cell for each row
EqualLength(T) == DOMAIN T.val = Range(T.index) \X Range(T.columns)

\* dropna over rows with a subset of one column, as the two cells call it
dropnaOne(T, how, cs) == dropna(T, "index", how, FALSE, 0, TRUE, cs).df

(* C16: dropna over rows for the subset {a} and then for the subset {b} gives the
   table the two calls give in the other order, which is the table of one dropna
   over rows with how=any and subset {a, b}: the rows with both cells present;
   the table between the calls and the final one have columns of equal length. *)
C16_TwoSubsets ==
    [][SecondOfTwo =>
        /\ out.err = "" /\ out'.err = ""
        /\ df' = WithoutMissingIn(arg, op.subset \cup op'.subset)
        /\ df' = dropnaOne(dropnaOne(arg, op'.how, op'.subset), op.how, op.subset)
        /\ df' = dropnaOne(arg, "any", op.subset \cup op'.subset)
        /\ EqualLength(arg) /\ EqualLength(df) /\ EqualLength(df')]_vars

\* each of the two calls dropped a row the other one would have kept
C16_Witness ==
    /\ op.name = "dropna_assign_then"
    /\ out.err = ""
    /\ df = out.df
    /\ df.index # <<>>
    /\ \E b \in op.subset, a \in Range(arg.columns) \ op.subset :
          /\ \E r \in Range(arg.index) : isna(arg.val[<<r, a>>]) /\ notna(arg.val[<<r, b>>])
          /\ \E r \in Range(arg.index) : isna(arg.val[<<r, b>>]) /\ notna(arg.val[<<r, a>>])
          /\ \A r \in Range(df.index) : notna(df.val[<<r, a>>]) /\ notna(df.val[<<r, b>>])

====
